---- MODULE Spec2Model ----
(***************************************************************************)
(* ifdtool (util/ifdtool/ifdtool.c): the Intel Firmware Descriptor tool.    *)
(*                                                                         *)
(* One run of the tool is modelled: main() reads the image file into a     *)
(* byte buffer, check_ifd_version() sets the globals ifd_version and        *)
(* max_regions, and then the operation of the selected mode runs           *)
(* (inject_region, new_layout, lock_descriptor, unlock_descriptor).        *)
(*                                                                         *)
(* A buffer is a sequence of bytes (0..255); the byte the C code finds at   *)
(* image[i] is img[i + 1].  A uint32_t is a record of its two 16-bit        *)
(* halves [lo, hi], so that all 32 bits are kept; words are read from and   *)
(* written to the buffer in little-endian byte order (the tool runs on the  *)
(* x86 build host).  int values (base, limit, size, offsets) are integers.  *)
(***************************************************************************)
EXTENDS Integers, Sequences, FiniteSets, TLC

VARIABLES
    image,        \* main(): char *image, the buffer read from the file (size = Len(image))
    ifd_version,  \* static int ifd_version
    max_regions,  \* static int max_regions
    pc,           \* where the run is: "start", "ready", then how it ended
    op,           \* the operation that ran, with its inputs and its local variables
    err,          \* the failure the run ended with ("" when none)
    new_file,     \* the content write_image() wrote to <filename>.new (<<>> when none)
    writes,       \* how many times write_image() was called
    oob,          \* the out-of-bounds accesses the run made: subset of {"read", "write"}
    call          \* a call of a pure function: its name, arguments and result

vars == <<image, ifd_version, max_regions, pc, op, err, new_file, writes, oob, call>>

(***************************************************************************)
(* Program constants.  ifdtool.h is not among the sources; the values are   *)
(* those the code and its tables show.                                      *)
(***************************************************************************)
IFD_VERSION_1 == 0
IFD_VERSION_2 == 1
MAX_REGIONS == 9
MAX_REGIONS_OLD == 5
SPI_FREQUENCY_20MHZ == 0
SPI_FREQUENCY_17MHZ == 6
FLMSTR_WR_SHIFT_V1 == 24
FLMSTR_RD_SHIFT_V1 == 16
FLMSTR_WR_SHIFT_V2 == 20
FLMSTR_RD_SHIFT_V2 == 8

(***************************************************************************)
(* Bits, bytes and words.                                                   *)
(***************************************************************************)
Bytes == 0..255

\* x & m for a mask m = 2^k - 1 (0xff, 0xfff, 0x7fff, 7): the low k bits of x.
\* For a negative int x this is the two's-complement result as well.
MaskLow(x, m) == x % (m + 1)

\* x >> k of an int (arithmetic shift: rounds towards minus infinity).
ShiftRight(x, k) == x \div (2 ^ k)

RECURSIVE BitOr(_, _)
\* a | b for naturals a, b.
BitOr(a, b) ==
    IF a = 0 THEN b
    ELSE IF b = 0 THEN a
    ELSE (IF (a % 2 = 1) \/ (b % 2 = 1) THEN 1 ELSE 0) + 2 * BitOr(a \div 2, b \div 2)

RECURSIVE BitAnd(_, _)
\* a & b for naturals a, b.
BitAnd(a, b) ==
    IF a = 0 \/ b = 0 THEN 0
    ELSE (IF (a % 2 = 1) /\ (b % 2 = 1) THEN 1 ELSE 0) + 2 * BitAnd(a \div 2, b \div 2)

\* A uint32_t as its 16-bit halves.
U32(hi16, lo16) == [lo |-> lo16, hi |-> hi16]

\* The uint32_t of a natural n < 2^31.
ToU32(n) == U32(n \div 65536, n % 65536)

\* The uint32_t an int converts to (-1 becomes 0xffffffff).
IntToU32(n) == IF n >= 0 THEN ToU32(n) ELSE U32(65536 + (n \div 65536), n % 65536)

\* The int a uint32_t converts to (values from 2^31 on become negative).
U32ToInt(w) == IF w.hi >= 32768 THEN (w.hi - 65536) * 65536 + w.lo ELSE w.hi * 65536 + w.lo

Or32(w, v) == U32(BitOr(w.hi, v.hi), BitOr(w.lo, v.lo))
And32(w, v) == U32(BitAnd(w.hi, v.hi), BitAnd(w.lo, v.lo))

\* w << 1 and the comparison w <= v of two uint32_t.
Shl1U32(w) == U32((2 * w.hi + (w.lo \div 32768)) % 65536, (2 * w.lo) % 65536)
LeU32(w, v) == (w.hi < v.hi) \/ (w.hi = v.hi /\ w.lo <= v.lo)

\* *(uint32_t *)(img + off), little-endian.
ReadU32(img, off) ==
    U32(img[off + 3] + 256 * img[off + 4], img[off + 1] + 256 * img[off + 2])

\* *(uint32_t *)(img + off) = w, little-endian.
WriteU32(img, off, w) ==
    SubSeq(img, 1, off)
        \o <<w.lo % 256, w.lo \div 256, w.hi % 256, w.hi \div 256>>
        \o SubSeq(img, off + 5, Len(img))

\* Whether the n bytes at img + off lie inside the buffer.
InBuffer(img, off, n) == off >= 0 /\ off + n <= Len(img)

(***************************************************************************)
(* find_fd: the offset of the descriptor signature, or -1 for NULL.         *)
(***************************************************************************)
FD_SIGNATURE == U32(\H0FF0, \HA55A)

\* The offsets the scan visits (i = 0; i < size - 4; i += 4) at which the word is
\* the signature (its first byte, 0x5A, is compared first).
\* find_fd_Candidates with a stride of one byte instead of four.
find_fd_Candidates_AnyOffset(img) ==
    {i \in 0..(Len(img) - 5) : ReadU32(img, i) = FD_SIGNATURE}

find_fd_Candidates(img) ==
    {i \in {4 * k : k \in 0..((Len(img) - 5) \div 4)} :
        img[i + 1] = \H5A /\ ReadU32(img, i) = FD_SIGNATURE}

find_fd(img) ==
    LET found == find_fd_Candidates(img)
    IN  IF found = {} THEN -1
        ELSE CHOOSE i \in found : \A j \in found : i <= j

\* The sections the descriptor map names, as offsets from the start of the buffer.
\* fdbar_t is {flvalsig, flmap0, flmap1, flmap2, ...}: flmap0 is the word after the
\* signature, flmap1 the one after that.
flmap0(img, fdb) == ReadU32(img, fdb + 4)
flmap1(img, fdb) == ReadU32(img, fdb + 8)
fcba_of(img, fdb) == MaskLow(flmap0(img, fdb).lo, \Hff) * 16
frba_of(img, fdb) == MaskLow(flmap0(img, fdb).hi, \Hff) * 16
fmba_of(img, fdb) == MaskLow(flmap1(img, fdb).lo, \Hff) * 16

\* read_freq with the field taken one bit too low.
read_freq_Bit16(img, fcba) == MaskLow(ReadU32(img, fcba).hi, 7)

\* (fcba->flcomp >> 17) & 7: bits 17..19 are bits 1..3 of the high half.
read_freq(img, fcba) == MaskLow(ShiftRight(ReadU32(img, fcba).hi, 1), 7)

(***************************************************************************)
(* get_region / set_region.                                                 *)
(***************************************************************************)
Region(b, l, s) == [base |-> b, limit |-> l, size |-> s]

base_mask(version) == IF version >= IFD_VERSION_2 THEN \H7fff ELSE \Hfff

\* The region a packed register decodes to.  limit_mask is base_mask << 16, so
\* (flreg & limit_mask) >> 4 is the masked high half shifted left by 12.
DecodeRegion(flreg, version) ==
    LET base  == MaskLow(flreg.lo, base_mask(version)) * 4096
        limit == BitOr(MaskLow(flreg.hi, base_mask(version)) * 4096, \Hfff)
        size  == limit - base + 1
    IN  Region(base, limit, IF size < 0 THEN 0 ELSE size)

\* frba_t is {flreg0, ..., flreg8}: register i is word i of the section.
flreg_of(frba, region_type) == frba + 4 * region_type

\* The indices get_region's switch has a case for; any other exits.
get_region_Supported == 0..8

get_region(img, frba, region_type, version) ==
    DecodeRegion(ReadU32(img, flreg_of(frba, region_type)), version)

\* EncodeRegion without the shifts by 12 (the fields taken from the low bits).
EncodeRegion_NoShift(region) ==
    U32(MaskLow(region.limit, \H7fff), MaskLow(region.base, \H7fff))

\* The packed register set_region stores for a region.
EncodeRegion(region) ==
    U32(MaskLow(ShiftRight(region.limit, 12), \H7fff),
        MaskLow(ShiftRight(region.base, 12), \H7fff))

\* The region types set_region has a case for.
set_region_Supported == 0..4

set_region(img, frba, region_type, region) ==
    WriteU32(img, flreg_of(frba, region_type), EncodeRegion(region))

(***************************************************************************)
(* The image files the runs start from.                                     *)
(*                                                                         *)
(* A file is data bytes with a descriptor written over them: the signature  *)
(* at 0x10, then flmap0 (FCBA 0x30, FRBA 0x40) and flmap1 (FMBA 0x80), the   *)
(* component word at 0x30, the nine region registers at 0x40 and the five   *)
(* master words at 0x80.  Data byte i depends on its page and its place in  *)
(* the page, is never 0xFF and never forms the signature.                   *)
(***************************************************************************)
MaxPages == 8

DataByte(i) == 16 * ((i \div 4096) + 1) + (i % 13)

ImageData == [i \in 1..(MaxPages * 4096) |-> DataByte(i - 1)]

RECURSIVE WriteWords(_, _, _)
WriteWords(img, off, words) ==
    IF words = <<>> THEN img
    ELSE WriteWords(WriteU32(img, off, Head(words)), off + 4, Tail(words))

MkImage(size, freq, flregs, flmstrs) ==
    LET d0 == SubSeq(ImageData, 1, size)
        d1 == WriteWords(d0, 16, <<FD_SIGNATURE, U32(\H0004, \H0003), U32(0, \H0008)>>)
        d2 == WriteU32(d1, 48, U32(2 * freq, 0))
        d3 == WriteWords(d2, 64, flregs)
    IN  WriteWords(d3, 128, flmstrs)

Disabled_V1 == U32(0, \Hfff)
Disabled_V2 == U32(0, \H7fff)
Erased == U32(\Hffff, \Hffff)

\* fd [0, 0xfff], bios [0x1000, 0x1fff], me [0x2000, 0x3fff]
Regs_V1_A == <<U32(0, 0), U32(1, 1), U32(3, 2), Disabled_V1, Disabled_V1,
               Erased, Erased, Erased, Erased>>
\* fd [0, 0xfff], bios [0x2000, 0x3fff], me [0x1000, 0x1fff]
Regs_V1_B == <<U32(0, 0), U32(3, 2), U32(1, 1), Disabled_V1, Disabled_V1,
               Erased, Erased, Erased, Erased>>
\* fd [0, 0xfff], bios [0x2000, 0x3fff], ec [0x1000, 0x1fff]
Regs_V2 == <<U32(0, 0), U32(3, 2), Disabled_V2, Disabled_V2, Disabled_V2,
             Disabled_V2, Disabled_V2, Disabled_V2, U32(1, 1)>>

Masters_Unlocked_V1 == <<U32(\Hffff, 0), U32(\Hffff, 0), U32(\H0808, \H0118), U32(0, 0), U32(0, 0)>>
Masters_Unlocked_V2 == <<U32(\Hffff, \Hff00), U32(\Hffff, \Hff00), U32(\Hffff, \Hff00),
                         U32(0, 0), U32(\Hffff, \Hff00)>>

\* The values of the 3-bit read frequency field that name no descriptor version.
UnknownFrequencies == (0..7) \ {SPI_FREQUENCY_20MHZ, SPI_FREQUENCY_17MHZ}

\* Whole files, a file cut short of its regions, a file with no descriptor and
\* files whose read frequency names no descriptor version.
ImageFiles ==
    { MkImage(4 * 4096, SPI_FREQUENCY_20MHZ, Regs_V1_A, Masters_Unlocked_V1),
      MkImage(4 * 4096, SPI_FREQUENCY_20MHZ, Regs_V1_B, Masters_Unlocked_V1),
      MkImage(3 * 4096, SPI_FREQUENCY_20MHZ, Regs_V1_B, Masters_Unlocked_V1),
      MkImage(4 * 4096, SPI_FREQUENCY_17MHZ, Regs_V2, Masters_Unlocked_V2),
      SubSeq(ImageData, 1, 4096) }
    \cup {MkImage(4 * 4096, freq, Regs_V1_A, Masters_Unlocked_V1) : freq \in UnknownFrequencies}

NoOp == [name |-> "none"]
NoCall == [fn |-> "none"]

InitWith(files) ==
    /\ image \in files
    /\ ifd_version = 0
    /\ max_regions = 0
    /\ pc = "start"
    /\ op = NoOp
    /\ err = ""
    /\ new_file = <<>>
    /\ writes = 0
    /\ oob = {}
    /\ call = NoCall

Init == InitWith(ImageFiles)

\* exit(EXIT_FAILURE) with the failure `kind`: nothing else changes.
Fail(kind) ==
    /\ pc' = "failed"
    /\ err' = kind

(***************************************************************************)
(* check_ifd_version: run by main() on the buffer before any mode.          *)
(***************************************************************************)
check_ifd_version ==
    /\ pc = "start"
    /\ LET fdb == find_fd(image)
       IN  IF fdb = -1
           THEN Fail("DescriptorNotFound") /\ UNCHANGED <<ifd_version, max_regions>>
           ELSE LET freq == read_freq(image, fcba_of(image, fdb))
                IN  CASE freq = SPI_FREQUENCY_20MHZ ->
                            /\ ifd_version' = IFD_VERSION_1
                            /\ max_regions' = MAX_REGIONS_OLD
                            /\ pc' = "ready"
                            /\ err' = err
                      [] freq = SPI_FREQUENCY_17MHZ ->
                            /\ ifd_version' = IFD_VERSION_2
                            /\ max_regions' = MAX_REGIONS
                            /\ pc' = "ready"
                            /\ err' = err
                      [] OTHER ->
                            /\ Fail("UnrecognizedDescriptorVersion")
                            /\ UNCHANGED <<ifd_version, max_regions>>
    /\ UNCHANGED <<image, op, new_file, writes, oob, call>>

(***************************************************************************)
(* Buffers: memset and memcpy.  An access outside a buffer is undefined     *)
(* behaviour: the part inside the buffer is carried out, bytes read from    *)
(* outside a buffer have an arbitrary value (junk), and the caller records  *)
(* the access in oob and lets the run crash or go on.                       *)
(***************************************************************************)
FFs == [i \in 1..(MaxPages * 4096) |-> 255]
Zeros == [i \in 1..(MaxPages * 4096) |-> 0]
JunkBytes == {0, 255}
\* Fill without the memset: the buffer as an allocation of zero pages leaves it.
Fill_NotErased(b, n) == IF n <= 0 THEN <<>> ELSE SubSeq(Zeros, 1, n)

Fill(b, n) == IF n <= 0 THEN <<>> ELSE SubSeq(IF b = 255 THEN FFs ELSE Zeros, 1, n)

Min(a, b) == IF a <= b THEN a ELSE b
Max(a, b) == IF a >= b THEN a ELSE b

\* SubSeq, empty when the range is.
Sub(s, a, b) == IF b < a THEN <<>> ELSE SubSeq(s, a, b)

\* The n bytes at src + s, junk where they lie outside src.
Window(src, s, n, junk) ==
    IF InBuffer(src, s, n) THEN Sub(src, s + 1, s + n)
    ELSE LET before == Max(0, Min(s + n, 0) - s)
             lo     == Max(s, 0)
             hi     == Max(Min(s + n, Len(src)), lo)
         IN  Fill(junk, before) \o Sub(src, lo + 1, hi) \o Fill(junk, n - before - (hi - lo))

\* dst after `bytes` are stored at dst + d (the part of them that falls inside dst).
Store(dst, d, bytes) ==
    LET n  == Len(bytes)
        lo == Min(Max(d, 0), Len(dst))
        hi == Max(Min(d + n, Len(dst)), lo)
    IN  IF n = 0 THEN dst
        ELSE Sub(dst, 1, lo) \o Sub(bytes, lo - d + 1, hi - d) \o Sub(dst, hi + 1, Len(dst))

\* memset(img + off, 0xff, n)
memset_ff(img, off, n) == Store(img, off, Fill(255, n))

\* memcpy(dst + d, src + s, n)
memcpy(dst, d, src, s, n, junk) == Store(dst, d, Window(src, s, n, junk))

(***************************************************************************)
(* write_image: opens <filename>.new and writes the buffer.  The open can   *)
(* fail (exit) and the write can be short (a message only).                 *)
(***************************************************************************)
WriteOutcomes == {"written", "open_fails", "short_write"}

\* write_image placed before the last check of its caller, which then exits.
write_image_BeforeLastCheck(img, outcome) ==
    /\ writes' = writes + 1
    /\ new_file' = img
    /\ Fail("InvalidRegionIndex")

write_image(img, outcome) ==
    /\ writes' = writes + 1
    /\ CASE outcome = "written" ->
                new_file' = img /\ pc' = "done" /\ err' = err
         [] outcome = "short_write" ->
                new_file' = SubSeq(img, 1, Len(img) \div 2) /\ pc' = "done" /\ err' = err
         [] OTHER ->
                new_file' = new_file /\ Fail("IO")

(***************************************************************************)
(* Region names.                                                            *)
(***************************************************************************)
region_names ==
    << [pretty |-> "flash descriptor", terse |-> "fd"],
       [pretty |-> "bios", terse |-> "bios"],
       [pretty |-> "intel me", terse |-> "me"],
       [pretty |-> "gbe", terse |-> "gbe"],
       [pretty |-> "platform data", terse |-> "pd"],
       [pretty |-> "reserved", terse |-> "res1"],
       [pretty |-> "reserved", terse |-> "res2"],
       [pretty |-> "reserved", terse |-> "res3"],
       [pretty |-> "ec", terse |-> "ec"] >>

\* region_name exits when the type is not a region of this descriptor version.
region_name_ok(region_type, maxr) == ~(region_type < 0 \/ region_type >= maxr)

\* region_num: the first index whose name matches (names compared without case:
\* the model's names are lower case), -1 when none does.
region_num(name, maxr) ==
    LET hits == {i \in 0..(maxr - 1) :
                    region_names[i + 1].pretty = name \/ region_names[i + 1].terse = name}
    IN  IF hits = {} THEN -1 ELSE CHOOSE i \in hits : \A j \in hits : i <= j

(***************************************************************************)
(* inject_region.                                                           *)
(***************************************************************************)
\* The region types main() passes: Descriptor, BIOS, ME, GbE, Platform, EC.
InjectRegionTypes == {0, 1, 2, 3, 4, 8}

ContentByte(k) == 200 + (k % 11)
ContentData == [i \in 1..(MaxPages * 4096) |-> ContentByte(i - 1)]
Content(n) == SubSeq(ContentData, 1, n)

\* The sizes of the files injected.
ContentSizes == {0, 3000, 4096, 8192, 8193}

\* How the region file behaves: it cannot be opened, read() returns fewer
\* bytes than asked for, or it is read whole.
ReadOutcomes == {"read", "open_fails", "short_read"}

\* offset: the padding in front of a file smaller than the BIOS region.
inject_pads(region_type, region_size, region) ==
    (region_type = 1) /\ (region_size < region.size)

\* inject_offset without the padding: the file stored at the front of the region.
inject_offset_Front(region_type, region_size, region) == 0

inject_offset(region_type, region_size, region) ==
    IF inject_pads(region_type, region_size, region) THEN region.size - region_size ELSE 0

\* The test that rejects the file for its size.
inject_rejects(region_type, region_size, region) ==
    (region_size > region.size) \/ ((region_type # 1) /\ (region_size > region.size))

inject_region(region_type, region_size, read_outcome, write_outcome, crash) ==
    /\ pc = "ready"
    /\ \E fdb \in {find_fd(image)} :
       \E region \in {IF fdb = -1 THEN Region(0, 0, 0)
                      ELSE get_region(image, frba_of(image, fdb), region_type, ifd_version)} :
       LET pad    == inject_pads(region_type, region_size, region)
           offset == inject_offset(region_type, region_size, region)
           padded == IF pad THEN memset_ff(image, region.base, offset) ELSE image
           padoob == IF pad /\ ~InBuffer(image, region.base, offset) THEN {"write"} ELSE {}
           got    == IF read_outcome = "short_read" THEN region_size \div 2 ELSE region_size
           filled == Store(padded, region.base + offset, Content(got))
           this   == [name |-> "inject_region", region_type |-> region_type,
                      region |-> region, region_size |-> region_size,
                      offset |-> offset, before |-> image]
       IN  /\ op' = this
           /\ IF fdb = -1 THEN
                  /\ Fail("DescriptorNotFound")
                  /\ UNCHANGED <<image, new_file, writes, oob>>
              ELSE IF region.size <= \Hfff THEN
                  /\ Fail(IF region_name_ok(region_type, max_regions)
                          THEN "RegionDisabled" ELSE "InvalidRegionIndex")
                  /\ UNCHANGED <<image, new_file, writes, oob>>
              ELSE IF read_outcome = "open_fails" THEN
                  /\ Fail("IO")
                  /\ UNCHANGED <<image, new_file, writes, oob>>
              ELSE IF inject_rejects(region_type, region_size, region) THEN
                  /\ Fail(IF region_name_ok(region_type, max_regions)
                          THEN "ContentTooLarge" ELSE "InvalidRegionIndex")
                  /\ UNCHANGED <<image, new_file, writes, oob>>
              ELSE IF padoob # {} /\ crash THEN
                  /\ pc' = "crashed"
                  /\ image' = padded
                  /\ oob' = padoob
                  /\ UNCHANGED <<err, new_file, writes>>
              ELSE IF Len(image) < region.base + offset + region_size THEN
                  /\ Fail("OutputTooSmall")
                  /\ image' = padded
                  /\ oob' = padoob
                  /\ UNCHANGED <<new_file, writes>>
              ELSE IF read_outcome = "short_read" /\ got # region_size THEN
                  /\ Fail("IO")
                  /\ image' = filled
                  /\ oob' = padoob
                  /\ UNCHANGED <<new_file, writes>>
              ELSE IF ~region_name_ok(region_type, max_regions) THEN
                  /\ Fail("InvalidRegionIndex")
                  /\ image' = filled
                  /\ oob' = padoob
                  /\ UNCHANGED <<new_file, writes>>
              ELSE
                  /\ image' = filled
                  /\ oob' = padoob
                  /\ write_image(filled, write_outcome)
    /\ UNCHANGED <<ifd_version, max_regions, call>>

InjectRegion ==
    \E region_type \in InjectRegionTypes, region_size \in ContentSizes,
       read_outcome \in ReadOutcomes, write_outcome \in WriteOutcomes, crash \in BOOLEAN :
        inject_region(region_type, region_size, read_outcome, write_outcome, crash)

(***************************************************************************)
(* next_pow2.  unsigned int is 32 bits wide: y << 1 drops the top bit.      *)
(* Once y is 0 the test y <= x holds for every x and y << 1 is 0 again, so  *)
(* from there the loop never ends: the call does not return.                *)
(***************************************************************************)
Returns(w) == [returns |-> TRUE, value |-> w]
NeverReturns == [returns |-> FALSE, value |-> U32(0, 0)]

RECURSIVE next_pow2_loop(_, _)
next_pow2_loop(y, x) ==
    IF LeU32(y, x)
    THEN IF y = U32(0, 0) THEN NeverReturns ELSE next_pow2_loop(Shl1U32(y), x)
    ELSE Returns(y)

\* next_pow2 with the loop test y < x in place of y <= x.
RECURSIVE next_pow2_loop_NotStrict(_, _)
next_pow2_loop_NotStrict(y, x) ==
    IF LeU32(y, x) /\ y # x
    THEN IF y = U32(0, 0) THEN NeverReturns ELSE next_pow2_loop_NotStrict(Shl1U32(y), x)
    ELSE Returns(y)

next_pow2_NotStrict(x) ==
    IF x = U32(0, 0) THEN Returns(U32(0, 0)) ELSE next_pow2_loop_NotStrict(U32(0, 1), x)

next_pow2(x) ==
    IF x = U32(0, 0) THEN Returns(U32(0, 0)) ELSE next_pow2_loop(U32(0, 1), x)

(***************************************************************************)
(* regions_collide: 1 or 0.                                                 *)
(***************************************************************************)
regions_collide(r1, r2) ==
    IF (r1.size = 0) \/ (r2.size = 0) THEN 0
    ELSE IF \/ ((r1.base >= r2.base) /\ (r1.base <= r2.limit))
            \/ ((r1.limit >= r2.base) /\ (r1.limit <= r2.limit)) THEN 1
    ELSE 0

(***************************************************************************)
(* new_layout.                                                              *)
(*                                                                         *)
(* The layout file is what fscanf and strtok make of it: whether it opens,  *)
(* and per line the region name, whether the range has both of its halves   *)
(* ("base:limit") and the two numbers strtol reads.  Region tables are      *)
(* sequences: the region of index i is regions[i + 1].                      *)
(***************************************************************************)
LayoutLine(name, base, limit) == [name |-> name, halves |-> 2, base |-> base, limit |-> limit]
LayoutFile(lines) == [readable |-> TRUE, lines |-> lines]

\* The region table of a descriptor: get_region for every index below max_regions.
RegionTable(img, frba, maxr, version) ==
    [i \in 1..maxr |-> get_region(img, frba, i - 1, version)]

\* limit - base + 1 in int arithmetic, computed on 16-bit halves: whether the
\* exact value leaves the range of int (signed overflow, undefined behaviour)
\* and the value a build that wraps gets.
layout_size(base, limit) ==
    LET lo_diff == (limit % 65536) - (base % 65536) + 1
        hi_diff == (limit \div 65536) - (base \div 65536) + (lo_diff \div 65536)
        wrapped == ((hi_diff + 32768) % 65536) - 32768
    IN  [overflows |-> hi_diff \notin (-32768)..32767,
         value     |-> wrapped * 65536 + (lo_diff % 65536)]

\* The region new_layout stores for a line "base:limit name": size is
\* limit - base + 1, 0 when that is negative.
layout_region(base, limit) ==
    LET size == layout_size(base, limit).value
    IN  Region(base, limit, IF size < 0 THEN 0 ELSE size)

\* The loop over the lines of the layout file: the table after them, or the
\* failure of a line without its two halves.  A line whose name is no region of
\* this descriptor is skipped before its range is looked at.
RECURSIVE read_layout(_, _, _)
read_layout(regions, lines, maxr) ==
    IF lines = <<>> THEN [ok |-> TRUE, regions |-> regions]
    ELSE LET line == Head(lines)
             region_number == region_num(line.name, maxr)
         IN  IF region_number < 0 THEN read_layout(regions, Tail(lines), maxr)
             ELSE IF line.halves # 2 THEN [ok |-> FALSE, regions |-> regions]
             ELSE read_layout(
                    [regions EXCEPT ![region_number + 1] =
                        layout_region(line.base, line.limit)],
                    Tail(lines), maxr)

\* The check loop exits at the first pair i < j it finds to collide.
layout_collides(new_regions, maxr) ==
    \E i \in 0..(maxr - 1) :
        /\ new_regions[i + 1].size # 0
        /\ \E j \in (i + 1)..(maxr - 1) :
               regions_collide(new_regions[i + 1], new_regions[j + 1]) = 1

\* new_extent after the check loop: the largest limit of a region of nonzero
\* size, 0 when there is none above 0.
RECURSIVE largest_limit(_, _, _)
largest_limit(new_regions, i, new_extent) ==
    IF i > Len(new_regions) THEN new_extent
    ELSE largest_limit(new_regions, i + 1,
            IF new_regions[i].size # 0 /\ new_extent < new_regions[i].limit
            THEN new_regions[i].limit ELSE new_extent)

\* copy_size, offset_current and offset_new of one pass of the copy loop.
copy_plan(current, new) ==
    [ copy_size      |-> IF new.size > current.size THEN current.size ELSE new.size,
      offset_new     |-> IF new.size > current.size THEN new.size - current.size ELSE 0,
      offset_current |-> IF new.size < current.size THEN current.size - new.size ELSE 0 ]

\* The memcpy of region index i, as ranges: what it reads and what it writes.
copy_src(current, new) == current.base + copy_plan(current, new).offset_current
copy_dst(current, new) == new.base + copy_plan(current, new).offset_new

\* The copy loop from index i on.
RECURSIVE copy_regions(_, _, _, _, _, _)
copy_regions(new_image, img, current_regions, new_regions, i, junk) ==
    IF i > Len(new_regions) THEN new_image
    ELSE LET current == current_regions[i]
             new     == new_regions[i]
         IN  copy_regions(
                IF new.size = 0 THEN new_image
                ELSE memcpy(new_image, copy_dst(current, new),
                            img, copy_src(current, new),
                            copy_plan(current, new).copy_size, junk),
                img, current_regions, new_regions, i + 1, junk)

\* The accesses of the copy loop that leave the old image or the new buffer.
copy_oob(img, new_extent, current_regions, new_regions) ==
    LET copies == {i \in 1..Len(new_regions) :
                      /\ new_regions[i].size # 0
                      /\ copy_plan(current_regions[i], new_regions[i]).copy_size > 0}
        n(i) == copy_plan(current_regions[i], new_regions[i]).copy_size
    IN  (IF \E i \in copies :
               ~InBuffer(img, copy_src(current_regions[i], new_regions[i]), n(i))
         THEN {"read"} ELSE {})
        \cup
        (IF \E i \in copies :
               LET d == copy_dst(current_regions[i], new_regions[i])
               IN  ~(d >= 0 /\ d + n(i) <= new_extent)
         THEN {"write"} ELSE {})

\* The register loop (i = 1; i < max_regions; i++): set_region stores the
\* registers it has a case for, and exits at the first index it has none for.
RECURSIVE update_regions(_, _, _, _)
update_regions(new_image, frba, new_regions, i) ==
    IF i > Len(new_regions) - 1 \/ i \notin set_region_Supported THEN new_image
    ELSE update_regions(
            IF InBuffer(new_image, flreg_of(frba, i), 4)
            THEN set_region(new_image, frba, i, new_regions[i + 1])
            ELSE new_image,
            frba, new_regions, i + 1)

update_regions_fails(maxr) == \E i \in 1..(maxr - 1) : i \notin set_region_Supported

update_regions_oob(new_image, frba, maxr) ==
    IF \E i \in 1..(maxr - 1) :
          i \in set_region_Supported /\ ~InBuffer(new_image, flreg_of(frba, i), 4)
    THEN {"write"} ELSE {}

\* What a run of new_layout leaves in op: its arguments and its local variables
\* (allocated: whether malloc was reached; frba: the register section found in
\* the new buffer, -1 before that).
NewLayoutOp(layout, current_regions, new_regions, allocated, new_extent, new_image, frba) ==
    [ name |-> "new_layout", layout |-> layout,
      current_regions |-> current_regions, new_regions |-> new_regions,
      allocated |-> allocated, new_extent |-> new_extent, new_image |-> new_image,
      frba |-> frba ]

\* The run from the copy loop on, with the table, the layout and the extent known.
new_layout_build(layout, current_regions, new_regions, new_extent) ==
    \E copyoob \in {copy_oob(image, new_extent, current_regions, new_regions)} :
    \E junk \in (IF "read" \in copyoob THEN JunkBytes ELSE {255}) :
    \E copied \in {copy_regions(Fill(255, new_extent), image,
                                current_regions, new_regions, 1, junk)} :
    \E fdb \in {find_fd(copied)} :
    \E frba \in {IF fdb = -1 THEN 0 ELSE frba_of(copied, fdb)} :
    \E updated \in {IF fdb = -1 THEN copied
                    ELSE update_regions(copied, frba, new_regions, 1)} :
    \E alloob \in {copyoob \cup (IF fdb = -1 THEN {}
                                 ELSE update_regions_oob(copied, frba, max_regions))} :
    \E crash \in (IF copyoob # {} THEN BOOLEAN ELSE {FALSE}) :
        IF crash THEN
            /\ pc' = "crashed"
            /\ oob' = copyoob
            /\ op' = NewLayoutOp(layout, current_regions, new_regions, TRUE, new_extent, copied, -1)
            /\ UNCHANGED <<err, new_file, writes>>
        ELSE IF fdb = -1 THEN
            /\ Fail("DescriptorNotFound")
            /\ oob' = copyoob
            /\ op' = NewLayoutOp(layout, current_regions, new_regions, TRUE, new_extent, copied, -1)
            /\ UNCHANGED <<new_file, writes>>
        ELSE IF update_regions_fails(max_regions) THEN
            /\ Fail("InvalidRegionIndex")
            /\ oob' = alloob
            /\ op' = NewLayoutOp(layout, current_regions, new_regions, TRUE, new_extent, updated, frba)
            /\ UNCHANGED <<new_file, writes>>
        ELSE
            /\ oob' = alloob
            /\ op' = NewLayoutOp(layout, current_regions, new_regions, TRUE, new_extent, updated, frba)
            /\ \E write_outcome \in WriteOutcomes : write_image(updated, write_outcome)

new_layout(layout) ==
    /\ pc = "ready"
    /\ \E fdb \in {find_fd(image)} :
       \E current_regions \in
            {IF fdb = -1 THEN <<>>
             ELSE RegionTable(image, frba_of(image, fdb), max_regions, ifd_version)} :
       \E parsed \in {read_layout(current_regions, layout.lines, max_regions)} :
       LET new_regions == parsed.regions
           early == NewLayoutOp(layout, current_regions, new_regions, FALSE, 0, <<>>, -1)
       IN  IF fdb = -1 THEN
               /\ Fail("DescriptorNotFound")
               /\ op' = early
               /\ UNCHANGED <<new_file, writes, oob>>
           ELSE IF ~layout.readable THEN
               /\ Fail("IO")
               /\ op' = NewLayoutOp(layout, current_regions, current_regions, FALSE, 0, <<>>, -1)
               /\ UNCHANGED <<new_file, writes, oob>>
           ELSE IF ~parsed.ok THEN
               /\ Fail("MalformedLayoutLine")
               /\ op' = early
               /\ UNCHANGED <<new_file, writes, oob>>
           ELSE IF layout_collides(new_regions, max_regions) THEN
               /\ Fail("OverlappingRegions")
               /\ op' = early
               /\ UNCHANGED <<new_file, writes, oob>>
           ELSE
               \E np \in {next_pow2(IntToU32(largest_limit(new_regions, 1, 0) - 1))} :
                   IF ~np.returns THEN
                       /\ pc' = "hang"
                       /\ op' = early
                       /\ UNCHANGED <<err, new_file, writes, oob>>
                   ELSE IF U32ToInt(np.value) < 0 THEN
                       \* malloc of a negative int as a size_t fails; memset of NULL
                       /\ pc' = "crashed"
                       /\ op' = NewLayoutOp(layout, current_regions, new_regions,
                                            FALSE, U32ToInt(np.value), <<>>, -1)
                       /\ UNCHANGED <<err, new_file, writes, oob>>
                   ELSE
                       new_layout_build(layout, current_regions, new_regions,
                                        U32ToInt(np.value))
    /\ UNCHANGED <<image, ifd_version, max_regions, call>>

\* The layout files of the runs: bases and limits on the first LayoutPages 4 KiB
\* blocks, a base and a limit inside a block, the last byte of the 16 KiB image
\* files and the byte after it.
LayoutPages == 3

LayoutBases == {p * 4096 : p \in 0..(LayoutPages - 1)} \cup {\H1800}
LayoutLimits == {p * 4096 + 4095 : p \in 0..(LayoutPages - 1)} \cup {\H2800, \H3fff, \H4000}

LayoutLines(name) == {LayoutLine(name, b, l) : b \in LayoutBases, l \in LayoutLimits}

LayoutFiles ==
    { [readable |-> FALSE, lines |-> <<>>], LayoutFile(<<>>) }
    \cup {LayoutFile(<<l>>) : l \in LayoutLines("bios") \cup LayoutLines("me")}
    \cup {LayoutFile(<<l1, l2>>) : l1 \in LayoutLines("bios"), l2 \in LayoutLines("me")}
    \cup { \* a range without its second half; a name that is no region; both
           LayoutFile(<<[name |-> "bios", halves |-> 1, base |-> \H1000, limit |-> 0]>>),
           LayoutFile(<<LayoutLine("nosuch", \H1000, \H1fff)>>),
           LayoutFile(<<[name |-> "nosuch", halves |-> 1, base |-> \H1000, limit |-> 0],
                        LayoutLine("ec", \H1000, \H1fff)>>),
           \* the same region twice; the descriptor region moved; every region disabled
           LayoutFile(<<LayoutLine("bios", \H1000, \H1fff), LayoutLine("BIOS", 0, 0),
                        LayoutLine("bios", \H3000, \H3fff)>>),
           LayoutFile(<<LayoutLine("fd", \H1000, \H1fff), LayoutLine("me", \H2000, \H2fff),
                        LayoutLine("bios", \H3000, \H3fff)>>),
           LayoutFile(<<LayoutLine("fd", \H1000, \Hfff), LayoutLine("bios", \H1000, \Hfff),
                        LayoutLine("me", \H1000, \Hfff), LayoutLine("ec", \H1000, \Hfff)>>) }

NewLayout == \E layout \in LayoutFiles : new_layout(layout)

(***************************************************************************)
(* lock_descriptor / unlock_descriptor.  fmba_t is {flmstr1, ..., flmstr5}: *)
(* master word k is word k - 1 of the master section.                       *)
(***************************************************************************)
flmstr_of(fmba, k) == fmba + 4 * (k - 1)

wr_shift(version) == IF version >= IFD_VERSION_2 THEN FLMSTR_WR_SHIFT_V2 ELSE FLMSTR_WR_SHIFT_V1
rd_shift(version) == IF version >= IFD_VERSION_2 THEN FLMSTR_RD_SHIFT_V2 ELSE FLMSTR_RD_SHIFT_V1

\* bits << shift as a uint32_t (the values shifted stay below 2^31).
ShiftLeft(bits, shift) == ToU32(bits * (2 ^ shift))

\* The word lock_descriptor leaves in flmstr1, flmstr2 and flmstr3.
lock_flmstr1(flmstr, version) ==
    LET cleared == IF version >= IFD_VERSION_2 THEN And32(flmstr, ToU32(\Hff)) ELSE ToU32(0)
    IN  Or32(Or32(cleared, ShiftLeft(\Hb, rd_shift(version))), ShiftLeft(\Ha, wr_shift(version)))

\* lock_flmstr2 without the clearing of the old bits.
lock_flmstr2_NotCleared(flmstr, version) ==
    Or32(Or32(flmstr, ShiftLeft(\Hd, rd_shift(version))), ShiftLeft(\Hc, wr_shift(version)))

lock_flmstr2(flmstr, version) ==
    LET cleared == IF version >= IFD_VERSION_2 THEN And32(flmstr, ToU32(\Hff)) ELSE ToU32(0)
    IN  Or32(Or32(cleared, ShiftLeft(\Hd, rd_shift(version))), ShiftLeft(\Hc, wr_shift(version)))

lock_flmstr3(flmstr, version) ==
    LET cleared == IF version >= IFD_VERSION_2 THEN And32(flmstr, ToU32(\Hff)) ELSE ToU32(\H118)
    IN  Or32(Or32(cleared, ShiftLeft(\H8, rd_shift(version))), ShiftLeft(\H8, wr_shift(version)))

\* The word unlock_descriptor leaves in flmstr1, flmstr2 and flmstr3.
unlock_flmstr1(flmstr, version) ==
    IF version >= IFD_VERSION_2
    THEN Or32(U32(\Hffff, \Hff00), And32(flmstr, ToU32(\Hff)))
    ELSE U32(\Hffff, \H0000)

unlock_flmstr2(flmstr, version) ==
    IF version >= IFD_VERSION_2
    THEN Or32(U32(\Hffff, \Hff00), And32(flmstr, ToU32(\Hff)))
    ELSE U32(\Hffff, \H0000)

unlock_flmstr3(flmstr, version) ==
    IF version >= IFD_VERSION_2
    THEN Or32(U32(\Hffff, \Hff00), And32(flmstr, ToU32(\Hff)))
    ELSE U32(\H0808, \H0118)

lock_descriptor(write_outcome) ==
    /\ pc = "ready"
    /\ \E fdb \in {find_fd(image)} :
       \E fmba \in {fmba_of(image, fdb)} :
       \E locked \in
            {WriteWords(image, fmba,
                <<lock_flmstr1(ReadU32(image, flmstr_of(fmba, 1)), ifd_version),
                  lock_flmstr2(ReadU32(image, flmstr_of(fmba, 2)), ifd_version),
                  lock_flmstr3(ReadU32(image, flmstr_of(fmba, 3)), ifd_version)>>)} :
           /\ op' = [name |-> "lock_descriptor", fmba |-> fmba, before |-> image]
           /\ image' = locked
           /\ write_image(locked, write_outcome)
    /\ UNCHANGED <<ifd_version, max_regions, oob, call>>

unlock_descriptor(write_outcome) ==
    /\ pc = "ready"
    /\ \E fdb \in {find_fd(image)} :
       \E fmba \in {fmba_of(image, fdb)} :
       \E unlocked \in
            {WriteWords(image, fmba,
                <<unlock_flmstr1(ReadU32(image, flmstr_of(fmba, 1)), ifd_version),
                  unlock_flmstr2(ReadU32(image, flmstr_of(fmba, 2)), ifd_version),
                  unlock_flmstr3(ReadU32(image, flmstr_of(fmba, 3)), ifd_version)>>)} :
           /\ op' = [name |-> "unlock_descriptor", fmba |-> fmba, before |-> image]
           /\ image' = unlocked
           /\ write_image(unlocked, write_outcome)
    /\ UNCHANGED <<ifd_version, max_regions, oob, call>>

LockDescriptor == \E write_outcome \in WriteOutcomes : lock_descriptor(write_outcome)
UnlockDescriptor == \E write_outcome \in WriteOutcomes : unlock_descriptor(write_outcome)

(***************************************************************************)
(* The tool: one run on one of the image files.                             *)
(***************************************************************************)
Next ==
    \/ check_ifd_version
    \/ InjectRegion
    \/ NewLayout
    \/ LockDescriptor
    \/ UnlockDescriptor

Spec == Init /\ [][Next]_vars

(***************************************************************************)
(* The access control alone: one-page images of both descriptor versions    *)
(* with every combination of the master words below, locked or unlocked.    *)
(***************************************************************************)
MasterWords == {U32(0, 0), U32(\Hffff, \Hffff), U32(\H0a0b, \H0000), U32(\H1234, \H56a5)}

AccessFiles ==
    {MkImage(4096, freq, IF freq = SPI_FREQUENCY_17MHZ THEN Regs_V2 ELSE Regs_V1_A,
             <<m1, m2, m3, U32(0, 0), m5>>) :
        freq \in {SPI_FREQUENCY_20MHZ, SPI_FREQUENCY_17MHZ},
        m1 \in MasterWords, m2 \in MasterWords, m3 \in MasterWords,
        m5 \in {U32(0, 0), U32(\H00a0, \H0b5a)}}

InitAccess == InitWith(AccessFiles)

NextAccess ==
    \/ check_ifd_version
    \/ LockDescriptor
    \/ UnlockDescriptor

SpecAccess == InitAccess /\ [][NextAccess]_vars

(***************************************************************************)
(* The pure functions alone: calls of regions_collide, of next_pow2 and of  *)
(* get_region followed by set_region, on arguments drawn from the sets      *)
(* below, under either descriptor version; one call per behaviour.          *)
(***************************************************************************)
\* Regions as the program builds them: size is limit - base + 1, 0 when negative.
MkRegion(base, limit) == Region(base, limit, IF limit - base + 1 < 0 THEN 0 ELSE limit - base + 1)

CallRegions == {MkRegion(b, l) : b \in LayoutBases, l \in LayoutLimits}

\* 2^k as a uint32_t.
Pow2U32(k) == IF k < 16 THEN U32(0, 2 ^ k) ELSE U32(2 ^ (k - 16), 0)

\* 0, and around every power of two: 2^k - 1, 2^k, 2^k + 1.
CallWords ==
    {U32(0, 0), U32(\Hffff, \Hffff), U32(\H00ff, \Hffff)}
    \cup {Pow2U32(k) : k \in 0..31}
    \cup {U32(0, 2 ^ k + 1) : k \in 1..15} \cup {U32(2 ^ (k - 16), 1) : k \in 16..31}
    \cup {U32(0, 2 ^ k - 1) : k \in 1..16} \cup {U32(2 ^ (k - 16) - 1, \Hffff) : k \in 17..31}

RegisterHalves == {0, 1, 3, \H0abc, \H0fff, \H1000, \H7fff, \H8000, \Hffff}
RegisterWords == {U32(h, l) : h \in RegisterHalves, l \in RegisterHalves}

\* A register section (nine erased registers) with flreg stored at index.
FrbaWith(index, flreg) == WriteU32(SubSeq(FFs, 1, 4 * MAX_REGIONS), flreg_of(0, index), flreg)

InitFn ==
    /\ image = <<>>
    /\ \E v \in {<<IFD_VERSION_1, MAX_REGIONS_OLD>>, <<IFD_VERSION_2, MAX_REGIONS>>} :
           ifd_version = v[1] /\ max_regions = v[2]
    /\ pc = "ready"
    /\ op = NoOp
    /\ err = ""
    /\ new_file = <<>>
    /\ writes = 0
    /\ oob = {}
    /\ call = NoCall

CallRegionsCollide ==
    /\ call = NoCall
    /\ \E r1 \in CallRegions, r2 \in CallRegions :
           call' = [fn |-> "regions_collide", r1 |-> r1, r2 |-> r2,
                    ret |-> regions_collide(r1, r2)]
    /\ UNCHANGED <<image, ifd_version, max_regions, pc, op, err, new_file, writes, oob>>

CallNextPow2 ==
    /\ call = NoCall
    /\ \E x \in CallWords :
           call' = [fn |-> "next_pow2", x |-> x, ret |-> next_pow2(x)]
    /\ UNCHANGED <<image, ifd_version, max_regions, pc, op, err, new_file, writes, oob>>

\* region = get_region(frba, index); set_region(frba, index, region): each
\* exits for an index it has no case for.
CallGetSetRegion ==
    /\ call = NoCall
    /\ \E index \in 0..MAX_REGIONS, flreg \in RegisterWords :
       \E before \in {FrbaWith(index, flreg)} :
       \E region \in {IF index \in get_region_Supported
                       THEN get_region(before, 0, index, ifd_version)
                       ELSE Region(0, 0, 0)} :
           call' = [fn |-> "get_set_region", index |-> index, flreg |-> flreg,
                    region |-> region, before |-> before,
                    get_exits |-> index \notin get_region_Supported,
                    exits |-> index \notin set_region_Supported,
                    after |-> IF index \in set_region_Supported
                              THEN set_region(before, 0, index, region) ELSE before]
    /\ UNCHANGED <<image, ifd_version, max_regions, pc, op, err, new_file, writes, oob>>

\* Buffers for find_fd: up to MaxBuffer bytes of data, with the signature
\* stored at none, one or two offsets (aligned or not, the last word included).
MaxBuffer == 12

Signature == <<\H5A, \HA5, \HF0, \H0F>>
FdBuffers ==
    LET data(n) == SubSeq(ImageData, 1, n)
    IN  {data(n) : n \in 0..MaxBuffer}
        \cup {Store(data(n), o, Signature) : n \in 4..MaxBuffer, o \in 0..(MaxBuffer - 4)}
        \cup {Store(Store(data(n), o1, Signature), o2, Signature) :
                 n \in 8..MaxBuffer, o1 \in 0..(MaxBuffer - 4), o2 \in 0..(MaxBuffer - 4)}

CallFindFd ==
    /\ call = NoCall
    /\ \E buffer \in FdBuffers :
           call' = [fn |-> "find_fd", image |-> buffer, ret |-> find_fd(buffer)]
    /\ UNCHANGED <<image, ifd_version, max_regions, pc, op, err, new_file, writes, oob>>

\* The numbers of a layout line as new_layout stores them in an int: small
\* ones, and the ends of the range of int (strtol of "7fffffff", "80000000",
\* "ffffffff" converted to int).
LayoutInts ==
    LayoutBases \cup LayoutLimits \cup {\H7fffffff, \H7ffff000, -1, -4096, -\H7fffffff - 1}

\* Lines 1013-1022 on one line of the layout file.  A signed overflow of
\* limit - base + 1 is undefined: the build wraps or traps.
CallLayoutRegion ==
    /\ call = NoCall
    /\ \E base \in LayoutInts, limit \in LayoutInts :
       \E outcome \in (IF layout_size(base, limit).overflows
                        THEN {"wraps", "traps"} ELSE {"in_range"}) :
           call' = [fn |-> "layout_region", base |-> base, limit |-> limit,
                    outcome |-> outcome,
                    region |-> layout_region(base, limit)]
    /\ UNCHANGED <<image, ifd_version, max_regions, pc, op, err, new_file, writes, oob>>

NextFn ==
    \/ CallRegionsCollide
    \/ CallNextPow2
    \/ CallGetSetRegion
    \/ CallFindFd
    \/ CallLayoutRegion

SpecFn == InitFn /\ [][NextFn]_vars

(***************************************************************************)
(* Properties of the pure functions (checked under SpecFn).                 *)
(***************************************************************************)
RoundTripCall ==
    /\ call.fn = "get_set_region"
    /\ ifd_version = IFD_VERSION_1
    /\ call.index \in 0..4

\* The register bits a version-1 descriptor decodes: 0..11 and 16..27.
ValidV1Register(flreg) == flreg.lo < 4096 /\ flreg.hi < 4096

\* C5 (as stated): on a version-1 descriptor, for every index 0..4 and every
\* 32-bit value of the register, get_region followed by set_region of the region
\* it returned leaves the register, and the section around it, as it was.
C5_RoundTripEveryValue ==
    RoundTripCall =>
        /\ ~call.exits
        /\ ReadU32(call.after, flreg_of(0, call.index)) = call.flreg
        /\ call.after = call.before

\* C5 (as amended): on a version-1 descriptor, for every index 0..4 and every
\* register value whose bits 12..15 and 28..31 are 0 (the bits get_region does
\* not decode under version 1), get_region followed by set_region of the region
\* it returned leaves the register bit-for-bit equal to its original value.
C5_RoundTripValidV1 ==
    (RoundTripCall /\ ValidV1Register(call.flreg)) =>
        /\ ~call.exits
        /\ ReadU32(call.after, flreg_of(0, call.index)) = call.flreg
        /\ call.after = call.before

C5_Witness ==
    /\ RoundTripCall
    /\ call.index = 4
    /\ call.flreg = U32(\H0fff, \H0abc)
    /\ call.region = Region(\H0abc000, \H0ffffff, \H0ffffff - \H0abc000 + 1)
    /\ ReadU32(call.after, flreg_of(0, 4)) = call.flreg

\* C6: regions_collide(r1, r2) = regions_collide(r2, r1) for all regions r1 and
\* r2, and the result is 0 whenever either region has size 0.
C6_CollideSymmetric ==
    (call.fn = "regions_collide") =>
        /\ call.ret = regions_collide(call.r2, call.r1)
        /\ (call.r1.size = 0 \/ call.r2.size = 0) => call.ret = 0

IsPow2U32(w) == \E k \in 0..31 : w = Pow2U32(k)
LtU32(w, v) == LeU32(w, v) /\ w # v

\* C7: next_pow2(0) returns 0; for every x with 0 < x < 2^31 next_pow2(x) returns
\* the least power of two strictly greater than x; next_pow2(0x00FFFFFF) is
\* 0x01000000.
C7_NextPow2 ==
    (call.fn = "next_pow2") =>
        /\ (call.x = U32(0, 0)) => (call.ret = Returns(U32(0, 0)))
        /\ (call.x # U32(0, 0) /\ call.x.hi < 32768) =>
              /\ call.ret.returns
              /\ IsPow2U32(call.ret.value)
              /\ LtU32(call.x, call.ret.value)
              /\ \A k \in 0..31 : LtU32(call.x, Pow2U32(k)) => LeU32(call.ret.value, Pow2U32(k))
        /\ (call.x = U32(\H00ff, \Hffff)) => (call.ret = Returns(U32(\H0100, 0)))

C7_Witness ==
    /\ call.fn = "next_pow2"
    /\ call.x = U32(\H4000, 0)
    /\ call.ret = Returns(U32(\H8000, 0))

(***************************************************************************)
(* Properties of new_layout (checked under Spec).                           *)
(***************************************************************************)
NewLayoutRan == op.name = "new_layout" /\ pc \notin {"start", "ready"}

\* The run got as far as the check of the merged layout: the old descriptor
\* was found, the layout file was read and every line of it was parsed.
NewLayoutMerged ==
    /\ NewLayoutRan
    /\ ~(err = "MalformedLayoutLine")
    /\ ~(err = "IO" /\ writes = 0)
    /\ ~(err = "DescriptorNotFound" /\ ~op.allocated)

\* Two regions of nonzero size whose byte ranges [base, limit] share a byte.
ShareByte(r1, r2) ==
    /\ r1.size # 0 /\ r2.size # 0
    /\ r1.base <= r2.limit /\ r2.base <= r1.limit

Overlapping(regions) ==
    \E i \in 1..Len(regions), j \in 1..Len(regions) :
        i # j /\ ShareByte(regions[i], regions[j])

\* C1: when two distinct regions of nonzero size of the merged layout share a
\* byte (one lying strictly inside the other included, whichever has the lower
\* index), new_layout ends with the overlapping-regions failure before a buffer
\* is allocated and nothing is persisted; so the regions of every persisted
\* image are pairwise disjoint.
C1_OverlapRejected ==
    /\ (NewLayoutMerged /\ Overlapping(op.new_regions)) =>
          /\ pc = "failed" /\ err = "OverlappingRegions"
          /\ ~op.allocated
          /\ writes = 0 /\ new_file = <<>>
    /\ (NewLayoutRan /\ new_file # <<>>) => ~Overlapping(op.new_regions)

\* The bytes of the register words the run rewrote in the new buffer: the
\* registers 1..max_regions-1 of the section at frba.
RegisterBytes == {k \in 0..(Len(op.new_image) - 1) :
                    op.frba >= 0 /\ k >= op.frba + 4 /\ k < op.frba + 4 * max_regions}

\* new[a..b] = old[a+delta..b+delta], byte indices as in C, both ranges inside
\* their buffers.
SameBytes(new, old, a, b, delta) ==
    \/ b < a
    \/ /\ a >= 0 /\ b < Len(new) /\ a + delta >= 0 /\ b + delta < Len(old)
       /\ Sub(new, a + 1, b + 1) = Sub(old, a + delta + 1, b + delta + 1)

\* The same, but for the bytes of the register words (one run of bytes lo..hi).
SameBytesButRegisters(new, old, a, b, delta) ==
    IF RegisterBytes = {} THEN SameBytes(new, old, a, b, delta)
    ELSE LET lo == op.frba + 4
             hi == op.frba + 4 * max_regions - 1
         IN  /\ SameBytes(new, old, a, Min(b, lo - 1), delta)
             /\ SameBytes(new, old, Max(a, hi + 1), b, delta)

TailAnchored(new_image, old_image, current, new) ==
    LET k == Min(current.size, new.size)
    IN  (new.size # 0) =>
            SameBytesButRegisters(new_image, old_image,
                                  new.limit - k + 1, new.limit, current.limit - new.limit)

\* C2: after the copy step of a run that persists its image, for every region
\* of nonzero new size, with k the smaller of its old and new size, the last k
\* bytes of the region in the new image are the last k bytes of the region in
\* the old image, apart from the register words rewritten afterwards.
C2_TailAnchored ==
    (NewLayoutRan /\ pc = "done" /\ oob = {}) =>
        \A i \in 1..Len(op.new_regions) :
            TailAnchored(op.new_image, image, op.current_regions[i], op.new_regions[i])

\* The largest limit among the regions of nonzero size.
LargestLimit(regions) ==
    LET limits == {regions[i].limit : i \in {j \in 1..Len(regions) : regions[j].size # 0}}
    IN  CHOOSE m \in limits : \A l \in limits : l <= m

\* The smallest power of two strictly greater than m.
LeastPow2Above(m) ==
    LET above == {2 ^ k : k \in 0..30} \cap {q \in 0..(2 * m + 2) : q > m}
    IN  CHOOSE q \in above : \A r \in above : q <= r

\* C3: the new image is next_power_of_two(M) bytes long, the smallest power of
\* two strictly greater than the largest limit M of the merged layout's regions
\* of nonzero size; so every such region's limit is below the image length.
C3_ExtentAboveLimits ==
    (NewLayoutRan /\ op.allocated) =>
        /\ Len(op.new_image) = LeastPow2Above(LargestLimit(op.new_regions))
        /\ \A i \in 1..Len(op.new_regions) :
              (op.new_regions[i].size # 0) => (op.new_regions[i].limit < Len(op.new_image))

\* C4: after a successful run, get_region on the registers of the persisted
\* image gives, for every index 1..max_regions-1, the base and limit of the
\* merged layout the copy step placed the region's bytes with.
C4_RegistersAgree ==
    (NewLayoutRan /\ pc = "done" /\ oob = {}) =>
        \A i \in 1..(max_regions - 1) :
            LET region == get_region(op.new_image, op.frba, i, ifd_version)
            IN  /\ region.base = op.new_regions[i + 1].base
                /\ region.limit = op.new_regions[i + 1].limit

(***************************************************************************)
(* Properties of inject_region (checked under Spec).                        *)
(***************************************************************************)
InjectRan == op.name = "inject_region" /\ pc \notin {"start", "ready"}

\* C8: injecting n bytes into the BIOS region (index 1) of size S > 0xfff, with
\* n <= S and base + S within the image: the run is not rejected, and once the
\* file is read the first S - n bytes of the region are 0xFF, the next n bytes
\* are the file and end at the region's limit, and the bytes outside
\* [base, limit] are as before.
C8_InjectBios ==
    (/\ InjectRan
     /\ op.region_type = 1
     /\ op.region.size > \Hfff
     /\ op.region_size <= op.region.size
     /\ op.region.base + op.region.size <= Len(op.before)) =>
        LET base == op.region.base
            S    == op.region.size
            n    == op.region_size
        IN  /\ err \notin {"RegionDisabled", "ContentTooLarge", "OutputTooSmall",
                           "InvalidRegionIndex", "DescriptorNotFound"}
            /\ (writes > 0) =>
                  /\ Len(image) = Len(op.before)
                  /\ \A k \in base..(base + S - n - 1) : image[k + 1] = 255
                  /\ Sub(image, base + S - n + 1, base + S) = Content(n)
                  /\ base + S - 1 = op.region.limit
                  /\ Sub(image, 1, base) = Sub(op.before, 1, base)
                  /\ Sub(image, base + S + 1, Len(image)) = Sub(op.before, base + S + 1, Len(image))
                  /\ (pc = "done" /\ Len(new_file) = Len(image)) => new_file = image

C8_Witness ==
    /\ InjectRan /\ pc = "done"
    /\ op.region_type = 1
    /\ op.region.size = 4096
    /\ op.region_size = 3000
    /\ op.offset = 1096
    /\ new_file = image
    /\ image # op.before

\* C9: for every region index but 1, a file smaller than the region is
\* rejected and nothing is persisted; a file larger than the region is rejected
\* with the content-too-large failure.
C9_OnlyBiosTakesSmaller ==
    (InjectRan /\ op.region.size > \Hfff /\ region_name_ok(op.region_type, max_regions)) =>
        /\ (op.region_type # 1 /\ op.region_size < op.region.size) =>
              (pc = "failed" /\ writes = 0 /\ new_file = <<>>)
        /\ (op.region_size > op.region.size /\ ~(err = "IO")) =>
              (pc = "failed" /\ err = "ContentTooLarge" /\ writes = 0)

(***************************************************************************)
(* Properties of lock_descriptor (checked under SpecAccess).                *)
(***************************************************************************)
\* Bit n of a uint32_t.
BitOf(w, n) == IF n < 16 THEN (w.lo \div (2 ^ n)) % 2 ELSE (w.hi \div (2 ^ (n - 16))) % 2

\* The regions a master word lets its master read and write: region r is bit
\* r of the read field and of the write field (0 descriptor, 1 BIOS, 2 ME,
\* 3 GbE, ...); the fields are 12 bits wide from bits 8 and 20 on version 2,
\* 8 bits wide from bits 16 and 24 on version 1.
FieldWidth(version) == IF version >= IFD_VERSION_2 THEN 12 ELSE 8
ReadFieldAt(version) == IF version >= IFD_VERSION_2 THEN 8 ELSE 16
WriteFieldAt(version) == IF version >= IFD_VERSION_2 THEN 20 ELSE 24
Readable(w, version) ==
    {r \in 0..(FieldWidth(version) - 1) : BitOf(w, ReadFieldAt(version) + r) = 1}
Writable(w, version) ==
    {r \in 0..(FieldWidth(version) - 1) : BitOf(w, WriteFieldAt(version) + r) = 1}

MasterWord(img, fmba, k) == ReadU32(img, flmstr_of(fmba, k))

\* C10: after lock_descriptor, whatever the master words were and for both
\* descriptor versions: the host reads {descriptor, BIOS, GbE} and writes
\* {BIOS, GbE}; the ME reads {descriptor, ME, GbE} and writes {ME, GbE}; the
\* GbE master reads {GbE} and writes {GbE}; no other read or write bit of the
\* three words is set; on version 2 the low byte of each word is as before, on
\* version 1 the low 16 bits of the GbE word are 0x118.
C10_LockMatrix ==
    (op.name = "lock_descriptor") =>
        LET host == MasterWord(image, op.fmba, 1)
            me   == MasterWord(image, op.fmba, 2)
            gbe  == MasterWord(image, op.fmba, 3)
        IN  /\ Readable(host, ifd_version) = {0, 1, 3}
            /\ Writable(host, ifd_version) = {1, 3}
            /\ Readable(me, ifd_version) = {0, 2, 3}
            /\ Writable(me, ifd_version) = {2, 3}
            /\ Readable(gbe, ifd_version) = {3}
            /\ Writable(gbe, ifd_version) = {3}
            /\ (ifd_version = IFD_VERSION_2) =>
                  \A k \in 1..3 :
                      MasterWord(image, op.fmba, k).lo % 256
                          = MasterWord(op.before, op.fmba, k).lo % 256
            /\ (ifd_version = IFD_VERSION_1) => (gbe.lo = \H118)

C10_Witness ==
    /\ op.name = "lock_descriptor"
    /\ ifd_version = IFD_VERSION_2
    /\ MasterWord(op.before, op.fmba, 2) = U32(\Hffff, \Hffff)
    /\ MasterWord(image, op.fmba, 2) = U32(\H00c0, \H0dff)
    /\ new_file = image

(***************************************************************************)
(* Properties of unlock_descriptor (checked under SpecAccess).              *)
(***************************************************************************)
\* The master words of a version-2 master section: flmstr1 (host/BIOS),
\* flmstr2 (ME), flmstr3 (GbE) and flmstr5 (EC), as dump_fmba prints them.
MastersV2 == {1, 2, 3, 5}

\* Bits 8..31 of the word are all 1.
AllAccess(w) == w.hi = \Hffff /\ w.lo \div 256 = \Hff

\* C11: after unlock_descriptor on a version-2 descriptor, whatever the master
\* words were, each of the host/BIOS, ME, GbE and EC master words has bits
\* 8..31 all 1 and its low byte as before.
C11_UnlockEveryMaster ==
    (op.name = "unlock_descriptor" /\ ifd_version = IFD_VERSION_2) =>
        \A k \in MastersV2 :
            /\ AllAccess(MasterWord(image, op.fmba, k))
            /\ MasterWord(image, op.fmba, k).lo % 256
                   = MasterWord(op.before, op.fmba, k).lo % 256

(***************************************************************************)
(* Properties of find_fd and get_region (checked under SpecFn).             *)
(***************************************************************************)
\* The 4-byte-aligned offsets at which the signature lies inside the buffer.
SignatureAt(buffer) ==
    {i \in 0..(Len(buffer) - 4) :
        i % 4 = 0 /\ SubSeq(buffer, i + 1, i + 4) = Signature}

\* C12: find_fd returns the lowest 4-byte-aligned offset at which the magic
\* 0x0FF0A55A lies inside the buffer, the last aligned word included, and
\* reports no descriptor exactly when there is no such offset.
C12_FindFdLowest ==
    (call.fn = "find_fd") =>
        LET hits == SignatureAt(call.image)
        IN  IF hits = {} THEN call.ret = -1
            ELSE call.ret \in hits /\ \A i \in hits : call.ret <= i

\* C12 as amended: find_fd returns the lowest 4-byte-aligned offset i below
\* size - 4 at which the magic lies (a word that ends the buffer is not
\* examined), and reports no descriptor exactly when there is no such offset.
C12_FindFdLowestBeforeLastWord ==
    (call.fn = "find_fd") =>
        LET hits == {i \in SignatureAt(call.image) : i < Len(call.image) - 4}
        IN  IF hits = {} THEN call.ret = -1
            ELSE call.ret \in hits /\ \A i \in hits : call.ret <= i

C12_Witness ==
    /\ call.fn = "find_fd"
    /\ Len(call.image) = 12
    /\ SignatureAt(call.image) = {4, 8}
    /\ call.ret = 4

\* C14: get_region fails for every index that is not below the region count of
\* the descriptor version; on version 1 it fails for the indices 5, 6, 7, 8.
C14_GetRegionChecksIndex ==
    (call.fn = "get_set_region" /\ call.index >= max_regions) => call.get_exits

(***************************************************************************)
(* Properties of check_ifd_version (checked under Spec).                    *)
(***************************************************************************)
\* Bits 17..19 of the component word of the descriptor in img.
FrequencyField(img) ==
    LET flcomp == ReadU32(img, fcba_of(img, find_fd(img)))
    IN  BitOf(flcomp, 17) + 2 * BitOf(flcomp, 18) + 4 * BitOf(flcomp, 19)

\* check_ifd_version has run and no mode has run yet.
JustDetected == pc # "start" /\ op = NoOp /\ find_fd(image) # -1

DetectionFollowsFrequency ==
    JustDetected =>
        CASE FrequencyField(image) = SPI_FREQUENCY_20MHZ ->
                 pc = "ready" /\ ifd_version = IFD_VERSION_1 /\ max_regions = 5
          [] FrequencyField(image) = SPI_FREQUENCY_17MHZ ->
                 pc = "ready" /\ ifd_version = IFD_VERSION_2 /\ max_regions = 9
          [] OTHER ->
                 pc = "failed" /\ err = "UnrecognizedDescriptorVersion"

DetectedVersion ==
    (pc # "start" /\ ~(op = NoOp /\ pc = "failed")) =>
        <<ifd_version, max_regions>> \in {<<IFD_VERSION_1, 5>>, <<IFD_VERSION_2, 9>>}

\* C13: the read frequency field (bits 17..19 of the component word) maps the
\* 20 MHz encoding to version 1 with 5 regions, the 17 MHz encoding to version
\* 2 with 9 regions and every other value to a failure; after a successful
\* detection (version, region count) is (V1, 5) or (V2, 9), and no later step
\* changes it.
C13_VersionDetection ==
    /\ [](DetectionFollowsFrequency /\ DetectedVersion)
    /\ [][(pc # "start") => (ifd_version' = ifd_version /\ max_regions' = max_regions)]_vars

\* The descriptor region of a version-2 image overwritten by inject_region,
\* with the detected version still in place.
C13_Witness ==
    /\ pc = "done"
    /\ op.name = "inject_region" /\ op.region_type = 0
    /\ find_fd(image) = -1
    /\ ifd_version = IFD_VERSION_2 /\ max_regions = 9

(***************************************************************************)
(* Properties of the regions the program builds (checked under SpecFn).     *)
(***************************************************************************)
\* size is 0 exactly when limit < base, and limit - base + 1 otherwise.
SizeMatchesRange(region) ==
    /\ (region.size = 0) <=> (region.limit < region.base)
    /\ (region.limit >= region.base) =>
           (region.size > 0 /\ region.base + (region.size - 1) = region.limit)

\* C15: for every region get_region returns (any register value, either
\* version) and every region new_layout parses from a layout line, size is 0
\* if and only if limit < base and is limit - base + 1 otherwise; a decoded
\* base has its low 12 bits 0 and a decoded limit has its low 12 bits 1.
C15_DisabledRegion ==
    /\ (call.fn = "get_set_region" /\ ~call.get_exits) =>
          /\ SizeMatchesRange(call.region)
          /\ call.region.base % 4096 = 0
          /\ call.region.limit % 4096 = 4095
    /\ (call.fn = "layout_region" /\ call.outcome # "traps") =>
          SizeMatchesRange(call.region)

(***************************************************************************)
(* Persistence (checked under Spec).                                        *)
(***************************************************************************)
MutationRan == op.name \in {"new_layout", "inject_region"} /\ pc # "ready"

\* The failures of new_layout and inject_region themselves; an unreadable
\* layout file is the "IO" failure of a run of new_layout on such a file.
MutationFailed ==
    /\ MutationRan /\ pc = "failed"
    /\ \/ err \in {"DescriptorNotFound", "MalformedLayoutLine", "OverlappingRegions",
                   "InvalidRegionIndex", "RegionDisabled", "ContentTooLarge",
                   "OutputTooSmall"}
       \/ err = "IO" /\ op.name = "new_layout" /\ ~op.layout.readable

\* C16: when new_layout or inject_region ends in one of its failures,
\* write_image has not been called and no file is persisted; write_image is
\* called at most once per run and nothing follows it; a run that ends
\* without a failure (shrink and size-change warnings included) has called it.
C16_NoPersistenceOnFailure ==
    /\ [](/\ MutationFailed => (writes = 0 /\ new_file = <<>>)
          /\ MutationRan => writes <= 1
          /\ (MutationRan /\ pc = "done") => writes = 1)
    /\ [][writes = 0]_vars

\* new_layout on a version-2 image: the failure comes after the new buffer is
\* built, and nothing is written.
C16_Witness ==
    /\ op.name = "new_layout" /\ pc = "failed"
    /\ err = "InvalidRegionIndex"
    /\ op.allocated /\ op.new_image # <<>>
    /\ writes = 0 /\ new_file = <<>>

(***************************************************************************)
(* The erased fill of the new image (checked under Spec).                   *)
(***************************************************************************)
\* The bytes of the new buffer the copy step stores for the region of index
\* i: the last min(old size, new size) bytes of the region's new range.
CopiedTail(i) ==
    LET current == op.current_regions[i + 1]
        new     == op.new_regions[i + 1]
        k       == Min(current.size, new.size)
    IN  IF new.size = 0 THEN {} ELSE (new.limit - k + 1)..new.limit

Copied(b) == \E i \in 0..(max_regions - 1) : b \in CopiedTail(i)

\* Where the tails and the register words begin and end inside the buffer: the
\* bytes between two neighbouring points are all copied or all not.
FillPoints ==
    LET n == Len(op.new_image)
        ends == UNION {IF CopiedTail(i) = {} THEN {}
                       ELSE {op.new_regions[i + 1].limit + 1,
                             op.new_regions[i + 1].limit + 1
                                - Min(op.current_regions[i + 1].size, op.new_regions[i + 1].size)} :
                       i \in 0..(max_regions - 1)}
    IN  {p \in ends \cup {op.frba + 4, op.frba + 4 * max_regions} : 0 < p /\ p < n} \cup {0, n}

FillSegments ==
    {s \in FillPoints \X FillPoints :
        s[1] < s[2] /\ ~\E r \in FillPoints : s[1] < r /\ r < s[2]}

\* C17: in the buffer new_layout hands to write_image, every byte outside the
\* copied tail of every region of nonzero size (the front padding of a grown
\* region, the bytes outside all regions) is 0xFF, apart from the register
\* words rewritten afterwards.
C17_ErasedFill ==
    (NewLayoutRan /\ writes = 1) =>
        \A s \in FillSegments :
            (~Copied(s[1]) /\ s[1] \notin RegisterBytes) =>
                Sub(op.new_image, s[1] + 1, s[2]) = Sub(FFs, 1, s[2] - s[1])

\* The BIOS region of 4096 bytes grown to [0x1000, 0x3fff] with the ME region
\* disabled: 0x2000 bytes of 0xFF in front of the old content.
C17_Witness ==
    /\ NewLayoutRan /\ pc = "done" /\ oob = {}
    /\ op.current_regions[2].size = 4096
    /\ op.new_regions[2].base = \H1000 /\ op.new_regions[2].limit = \H3fff
    /\ op.new_regions[3].size = 0
    /\ Sub(new_file, \H1001, \H3000) = Sub(FFs, 1, \H2000)
    /\ Sub(new_file, \H3001, \H4000) = Sub(image, \H1001, \H2000)

(***************************************************************************)
(* new_layout on a version-2 descriptor (checked under Spec).               *)
(***************************************************************************)
\* The run went past the overlap check of the merged layout.
PassedOverlapCheck ==
    /\ NewLayoutMerged
    /\ ~(pc = "failed" /\ err = "OverlappingRegions")

\* C18: on a version-2 descriptor new_layout never persists an image: for
\* every layout that passes the overlap check the run ends with the
\* invalid-region failure of set_region at index 5, before write_image.
C18_V2NeverPersists ==
    (NewLayoutRan /\ ifd_version = IFD_VERSION_2) =>
        /\ writes = 0 /\ new_file = <<>>
        /\ PassedOverlapCheck => (pc = "failed" /\ err = "InvalidRegionIndex")

(***************************************************************************)
(* Buffer bounds (checked under Spec).                                      *)
(***************************************************************************)
\* The n bytes from offset off on lie inside a buffer of len bytes.
Within(off, n, len) == n = 0 \/ (0 <= off /\ off + n <= len)

\* C19: in the copy step of new_layout, for every image and every layout that
\* passes the overlap check, each byte read lies inside the old image and each
\* byte written lies inside the new buffer of new_extent bytes.
C19_CopyWithinBuffers ==
    (NewLayoutRan /\ op.allocated) =>
        \A i \in 1..Len(op.new_regions) :
            LET current == op.current_regions[i]
                new     == op.new_regions[i]
                k       == Min(current.size, new.size)
            IN  (new.size # 0) =>
                    /\ Within(current.limit - k + 1, k, Len(image))
                    /\ Within(new.limit - k + 1, k, op.new_extent)

\* C20: inject_region writes no byte outside the image buffer; when the image
\* is shorter than region.base + offset + content size the run fails with the
\* output-too-small failure and the buffer is as it was.
C20_InjectWithinBuffer ==
    InjectRan =>
        /\ "write" \notin oob
        /\ (pc = "failed" /\ err = "OutputTooSmall") => image = op.before
        /\ (writes > 0) =>
              op.region.base + op.offset + op.region_size <= Len(op.before)

(***************************************************************************)
(* Termination of next_pow2 inside new_layout (checked under Spec).         *)
(***************************************************************************)
\* The merged layout has no region of nonzero size, so new_extent is still 0
\* at the call and next_pow2 is passed 0 - 1.
NoRegionOfNonzeroSize ==
    \A i \in 1..Len(op.new_regions) : op.new_regions[i].size = 0

\* The run is inside the loop of next_pow2 and stays there.
InNextPow2Loop == pc = "hang"

\* C21: the call of next_pow2 in new_layout returns, also when the merged
\* layout has no region of nonzero size and the argument is 0 - 1 in 32 bits:
\* a run of new_layout that passes the overlap check goes on to the allocation
\* and from there to a failure or to write_image, and no run stays in the loop
\* of next_pow2.
C21_NextPow2Returns ==
    NewLayoutRan =>
        /\ ~InNextPow2Loop
        /\ (PassedOverlapCheck /\ NoRegionOfNonzeroSize) =>
               (pc \in {"failed", "done", "crashed"})

====
